---- MODULE Spec2Model ----
(***************************************************************************)
(* Billing / ledger reconciliation of the dish-line bill collection app.  *)
(*                                                                         *)
(* The DataProvider of src/contexts.tsx keeps five React state lists      *)
(* (customers, payments, duePayments, bills, areas) that are refreshed by  *)
(* Firestore snapshot listeners, and a set of mutation callbacks that read *)
(* those lists and issue batched writes to the document store.  The model  *)
(* keeps the document store (db) and the in-memory lists apart: a list is  *)
(* the content its collection had when its last snapshot was delivered.    *)
(***************************************************************************)
EXTENDS Integers, Sequences, FiniteSets, TLC

VARIABLES
    userId,              \* user?.id of the DataProvider, NoUser when signed out
    db,                  \* the user's document store: collection -> (doc id -> doc)
    customers,           \* React state: last customers snapshot (id -> data)
    payments,            \* React state: last payments snapshot
    duePayments,         \* React state: last duePayments snapshot
    bills,               \* React state: last bills snapshot
    initialBillsLoaded,  \* React state: first bills snapshot received
    now,                 \* wall clock, in half months
    nextId,              \* auto-id source of doc(collection(..)): collection -> next id
    calls,               \* number of data-API calls issued so far
    initialDue,          \* customer id -> openingDue when the session started
    last,                \* the last call that reached the store: operation, arguments, result, store before
    scenario,            \* the inputs of the scenario under way (scenario specifications only)
    areas,               \* React state: last areas snapshot
    user,                \* AuthProvider state: last snapshot of the user document, NoProfile before it
    trialDaysLeft,       \* the useMemo value of useSubscriptionStatus in the mounted screen
    denied,              \* collections whose writes the backend rejects at present
    tzWest,              \* the device's time zone is behind UTC
    uncaught,            \* async functions whose rejection reached no handler
    dialog               \* CollectBillModal: isOpen, the customer, the selectedBills state

vars == <<userId, db, customers, payments, duePayments, bills,
          initialBillsLoaded, now, nextId, calls, initialDue, last, scenario,
          areas, user, trialDaysLeft, denied, tzWest, uncaught, dialog>>

----------------------------------------------------------------------------
(* Bounds of the model *)

NumCust == 1             \* customers in the store
MaxDuePayments == 2      \* due-payment records ever created
MaxPayments == 2         \* payment records ever created
MaxAmount == 2           \* largest due-payment amount entered
MaxBill == 1             \* largest monthly bill entered
NumDates == 2            \* distinct dates entered in a payment form
MaxTicks == 1            \* clock steps (half months) after the start
MaxCalls == 2            \* data-API calls in one behaviour

----------------------------------------------------------------------------
(* Values *)

NoUser == "none"
TheUser == "u1"

ACTIVE == "Active"
INACTIVE == "Inactive"
PAUSED == "Paused"
PAID == "Paid"
UNPAID == "Unpaid"

CustIds == 1..NumCust
Amounts == 1..MaxAmount
Dates == 1..NumDates

\* An empty collection / an empty field map.
Empty == <<>>

\* The collect-bill dialog before it is first opened.
NoDialog == [isOpen |-> FALSE, customerId |-> 0, selectedBills |-> Empty]

----------------------------------------------------------------------------
(* Documents and collections *)

\* A collection or a document with key k bound to v.
Put(f, k, v) == [x \in (DOMAIN f) \cup {k} |-> IF x = k THEN v ELSE f[x]]

\* A collection without the documents ks / a document without the fields ks.
Remove(f, ks) == [x \in (DOMAIN f) \ ks |-> f[x]]

\* updateDoc / batch.update: the given fields replace or extend the document's.
Merge(d, u) == [k \in (DOMAIN d) \cup (DOMAIN u) |-> IF k \in DOMAIN u THEN u[k] ELSE d[k]]

\* The writes of a write batch.  del: the fields given as deleteField().
BatchSet(coll, id, data) ==
    [kind |-> "set", coll |-> coll, id |-> id, data |-> data, del |-> {}]
BatchUpdate(coll, id, data, del) ==
    [kind |-> "update", coll |-> coll, id |-> id, data |-> data, del |-> del]
BatchDelete(coll, id) ==
    [kind |-> "delete", coll |-> coll, id |-> id, data |-> Empty, del |-> {}]

\* The effect of one write on a store.
ApplyWrite(d, w) ==
    CASE w.kind = "set" -> [d EXCEPT ![w.coll] = Put(@, w.id, w.data)]
      [] w.kind = "update" ->
            [d EXCEPT ![w.coll] = Put(@, w.id, Remove(Merge(@[w.id], w.data), w.del))]
      [] w.kind = "delete" -> [d EXCEPT ![w.coll] = Remove(@, {w.id})]

\* A batch commits only if every document it updates exists (an update of a
\* missing document rejects the whole batch); set and delete never fail.
BatchOk(d, batch) ==
    \A i \in 1..Len(batch) :
        batch[i].kind = "update" => batch[i].id \in DOMAIN d[batch[i].coll]

RECURSIVE ApplyBatch(_, _)
ApplyBatch(d, batch) ==
    IF batch = <<>> THEN d
    ELSE ApplyBatch(ApplyWrite(d, Head(batch)), Tail(batch))

\* The backend accepts a batch unless it writes to a collection it rejects.
Accepted(batch) == \A i \in 1..Len(batch) : batch[i].coll \notin denied

\* A commit (or a single addDoc / updateDoc / deleteDoc) on the store d: all
\* writes or none.  rejected: the write was issued and threw.
CommitOn(d, batch) ==
    IF BatchOk(d, batch) /\ Accepted(batch)
    THEN [success |-> TRUE, db |-> ApplyBatch(d, batch), rejected |-> FALSE]
    ELSE [success |-> FALSE, db |-> d, rejected |-> TRUE]

\* batch.commit(): all writes or none; a rejection is caught by the caller's
\* try/catch and reported as success = false.
Commit(batch) == CommitOn(db, batch)

\* A call that returns success = false before it issues a write.
Failure == [success |-> FALSE, db |-> db, rejected |-> FALSE]

\* The writes of a forEach over a list of documents, in some order (the
\* documents are distinct, so the order does not matter).
RECURSIVE SeqOfSet(_)
SeqOfSet(S) ==
    IF S = {} THEN <<>>
    ELSE LET x == CHOOSE y \in S : TRUE
         IN <<x>> \o SeqOfSet(S \ {x})

\* The record of a data-API call (or generator run) that reached the store.
Call(op, arg, res) ==
    [op |-> op, arg |-> arg, success |-> res.success, pre |-> db,
     rejected |-> res.rejected]
NoCall ==
    [op |-> "none", arg |-> Empty, success |-> FALSE, pre |-> Empty, rejected |-> FALSE]

\* A data-API call returns: its batch is in the store or it failed; ids is
\* the auto-id source after the call.  The React state is not touched: it
\* changes only when a listener delivers.
Return(op, arg, res, ids) ==
    /\ db' = res.db
    /\ nextId' = ids
    /\ last' = Call(op, arg, res)
    /\ calls' = calls + 1
    /\ UNCHANGED <<userId, customers, payments, duePayments, bills,
                   initialBillsLoaded, now, initialDue,
                   areas, user, trialDaysLeft, denied, tzWest, uncaught>>

\* doc(collection(..)): a reference with a new, never used id.
autoId_size(coll) == Cardinality(DOMAIN db[coll]) + 1
autoId(coll) == nextId[coll]

\* The sum of f over the finite set S.
RECURSIVE SumOver(_, _)
SumOver(S, f) ==
    IF S = {} THEN 0
    ELSE LET x == CHOOSE y \in S : TRUE
         IN f[x] + SumOver(S \ {x}, f)

----------------------------------------------------------------------------
(* Due-ledger manager *)

\* getCustomerById: customers.find(c => c.id === id)
getCustomerById(id) == IF id \in DOMAIN customers THEN customers[id] ELSE Empty

addDuePaymentBatch(paymentData, newId) ==
    LET customer == getCustomerById(paymentData.customerId)
        newOpeningDue == customer.openingDue - paymentData.amount
    IN  << BatchSet("duePayments", newId, paymentData),
           BatchUpdate("customers", paymentData.customerId,
                       [openingDue |-> newOpeningDue], {}) >>

addDuePayment(paymentData) ==
    LET res == IF userId = NoUser THEN Failure
               ELSE IF paymentData.customerId \notin DOMAIN customers THEN Failure
               ELSE Commit(addDuePaymentBatch(paymentData, autoId("duePayments")))
    IN  Return("addDuePayment", [id |-> autoId("duePayments"), data |-> paymentData], res,
               IF res.success THEN [nextId EXCEPT !.duePayments = @ + 1] ELSE nextId)

updateDuePaymentBatch(updatedPayment) ==
    LET originalPayment == duePayments[updatedPayment.id]
        customer == getCustomerById(updatedPayment.customerId)
        data == Remove(updatedPayment, {"id"})
        amountDifference == updatedPayment.amount - originalPayment.amount
        newOpeningDue == customer.openingDue - amountDifference
    IN  << BatchUpdate("duePayments", updatedPayment.id, data, {}),
           BatchUpdate("customers", updatedPayment.customerId,
                       [openingDue |-> newOpeningDue], {}) >>

updateDuePayment(updatedPayment) ==
    LET res == IF userId = NoUser THEN Failure
               ELSE IF \/ updatedPayment.id \notin DOMAIN duePayments
                       \/ updatedPayment.customerId \notin DOMAIN customers
                    THEN Failure
               ELSE Commit(updateDuePaymentBatch(updatedPayment))
    IN  Return("updateDuePayment", updatedPayment, res, nextId)

deleteDuePaymentBatch_lower(paymentId) ==
    LET paymentToDelete == duePayments[paymentId]
        customer == getCustomerById(paymentToDelete.customerId)
        newOpeningDue == customer.openingDue - paymentToDelete.amount
    IN  << BatchDelete("duePayments", paymentId),
           BatchUpdate("customers", paymentToDelete.customerId,
                       [openingDue |-> newOpeningDue], {}) >>

deleteDuePaymentBatch(paymentId) ==
    LET paymentToDelete == duePayments[paymentId]
        customer == getCustomerById(paymentToDelete.customerId)
        newOpeningDue == customer.openingDue + paymentToDelete.amount
    IN  << BatchDelete("duePayments", paymentId),
           BatchUpdate("customers", paymentToDelete.customerId,
                       [openingDue |-> newOpeningDue], {}) >>

deleteDuePayment(paymentId) ==
    LET res == IF userId = NoUser THEN Failure
               ELSE IF paymentId \notin DOMAIN duePayments THEN Failure
               ELSE IF duePayments[paymentId].customerId \notin DOMAIN customers
                    THEN Failure
               ELSE Commit(deleteDuePaymentBatch(paymentId))
    IN  Return("deleteDuePayment", [id |-> paymentId], res, nextId)

----------------------------------------------------------------------------
(* Payment reconciler *)

isPaidBy(bill, paymentId) ==
    "paymentId" \in DOMAIN bill /\ bill.paymentId = paymentId

\* batch.update(billRef, {status: UNPAID, paidDate: deleteField(), paymentId: deleteField()})
revertBill_keepRef(b) == BatchUpdate("bills", b, [status |-> UNPAID], {"paidDate"})
revertBill(b) == BatchUpdate("bills", b, [status |-> UNPAID], {"paidDate", "paymentId"})

deletePaymentBatch_reverse(paymentId) ==
    LET billsToUpdate == {b \in DOMAIN bills : isPaidBy(bills[b], paymentId)}
    IN  SeqOfSet({revertBill(b) : b \in billsToUpdate})
          \o SeqOfSet({BatchUpdate("customers", bills[b].customerId,
                                    [openingDue |-> customers[bills[b].customerId].openingDue
                                                      - bills[b].amount], {})
                         : b \in billsToUpdate})
          \o << BatchDelete("payments", paymentId) >>

deletePaymentBatch(paymentId) ==
    LET billsToUpdate == {b \in DOMAIN bills : isPaidBy(bills[b], paymentId)}
    IN  SeqOfSet({revertBill(b) : b \in billsToUpdate})
          \o << BatchDelete("payments", paymentId) >>

deletePayment(paymentId) ==
    LET res == IF userId = NoUser THEN Failure
               ELSE Commit(deletePaymentBatch(paymentId))
    IN  Return("deletePayment", [id |-> paymentId], res, nextId)

\* The part of a bill's amount an allocation leaves unpaid, when positive.
shortfall_paid(originalBill, paidAmount) == paidAmount
shortfall(originalBill, paidAmount) ==
    LET dueDifference == originalBill.amount - paidAmount
    IN  IF dueDifference > 0 THEN dueDifference ELSE 0

\* batch.update(billRef, {status: PAID, paidDate: paymentData.date, paymentId: paymentRef.id})
paidFields_today(paymentData, paymentRefId) ==
    [status |-> PAID, paidDate |-> 1, paymentId |-> paymentRefId]
paidFields(paymentData, paymentRefId) ==
    [status |-> PAID, paidDate |-> paymentData.date, paymentId |-> paymentRefId]

\* customerSnap: the customer document read from the store by getDoc
\* (openingDue || 0 is the stored number).
addPaymentBatch_fromStore(paymentData, billsToPay, paymentRefId, customerSnap) ==
    LET found == {b \in DOMAIN billsToPay : b \in DOMAIN db.bills}
        totalDueDifference ==
            SumOver(found, [b \in found |-> shortfall(db.bills[b], billsToPay[b])])
        currentOpeningDue == customerSnap.openingDue
        newOpeningDue == currentOpeningDue + totalDueDifference
    IN  << BatchSet("payments", paymentRefId, paymentData) >>
          \o SeqOfSet({BatchUpdate("bills", b, paidFields(paymentData, paymentRefId), {})
                        : b \in found})
          \o (IF totalDueDifference > 0
              THEN << BatchUpdate("customers", paymentData.customerId,
                                  [openingDue |-> newOpeningDue], {}) >>
              ELSE <<>>)

addPaymentBatch(paymentData, billsToPay, paymentRefId, customerSnap) ==
    LET found == {b \in DOMAIN billsToPay : b \in DOMAIN bills}
        totalDueDifference ==
            SumOver(found, [b \in found |-> shortfall(bills[b], billsToPay[b])])
        currentOpeningDue == customerSnap.openingDue
        newOpeningDue == currentOpeningDue + totalDueDifference
    IN  << BatchSet("payments", paymentRefId, paymentData) >>
          \o SeqOfSet({BatchUpdate("bills", b, paidFields(paymentData, paymentRefId), {})
                        : b \in found})
          \o (IF totalDueDifference > 0
              THEN << BatchUpdate("customers", paymentData.customerId,
                                  [openingDue |-> newOpeningDue], {}) >>
              ELSE <<>>)

addPayment_noLookup(paymentData, billsToPay) ==
    LET res == IF userId = NoUser THEN Failure
               ELSE Commit(addPaymentBatch(paymentData, billsToPay, autoId("payments"),
                                           IF paymentData.customerId \in DOMAIN db.customers
                                           THEN db.customers[paymentData.customerId]
                                           ELSE [openingDue |-> 0]))
    IN  Return("addPayment",
               [id |-> autoId("payments"), data |-> paymentData, billsToPay |-> billsToPay],
               res,
               IF res.success THEN [nextId EXCEPT !.payments = @ + 1] ELSE nextId)

addPayment(paymentData, billsToPay) ==
    LET res == IF userId = NoUser THEN Failure
               ELSE IF paymentData.customerId \notin DOMAIN db.customers THEN Failure
               ELSE Commit(addPaymentBatch(paymentData, billsToPay, autoId("payments"),
                                           db.customers[paymentData.customerId]))
    IN  Return("addPayment",
               [id |-> autoId("payments"), data |-> paymentData, billsToPay |-> billsToPay],
               res,
               IF res.success THEN [nextId EXCEPT !.payments = @ + 1] ELSE nextId)

----------------------------------------------------------------------------
(* Customers *)

\* updateDoc(customer doc, cleanData(data)): every field of the form.
updateCustomer(updatedCustomer) ==
    LET data == Remove(updatedCustomer, {"id"})
        res == IF userId = NoUser THEN Failure
               ELSE Commit(<< BatchUpdate("customers", updatedCustomer.id, data, {}) >>)
    IN  Return("updateCustomer", updatedCustomer, res, nextId)

deleteCustomerBatch(customerId) ==
    SeqOfSet({BatchDelete("payments", p)
                : p \in {q \in DOMAIN payments : payments[q].customerId = customerId}})
      \o SeqOfSet({BatchDelete("duePayments", p)
                : p \in {q \in DOMAIN duePayments : duePayments[q].customerId = customerId}})
      \o SeqOfSet({BatchDelete("bills", b)
                : b \in {q \in DOMAIN bills : bills[q].customerId = customerId}})
      \o << BatchDelete("customers", customerId) >>

deleteCustomer_unguarded(customerId) ==
    LET res == Commit(deleteCustomerBatch(customerId))
    IN  Return("deleteCustomer", [id |-> customerId], res, nextId)

deleteCustomer(customerId) ==
    LET res == IF userId = NoUser THEN Failure
               ELSE Commit(deleteCustomerBatch(customerId))
    IN  Return("deleteCustomer", [id |-> customerId], res, nextId)

----------------------------------------------------------------------------
(* Areas, new customers, subscription request *)

\* A string is kept as its word, whether it has upper-case letters and
\* whether it has surrounding blanks.
Str(word) == [word |-> word, upper |-> FALSE, padded |-> FALSE]
trim(str) == [str EXCEPT !.padded = FALSE]
toLowerCase(str) == [str EXCEPT !.upper = FALSE]

\* areas.some(a => a.name.toLowerCase() === name.toLowerCase())
areaListed(name) ==
    \E a \in DOMAIN areas : toLowerCase(areas[a].name) = toLowerCase(name)

\* The result of addArea on the store d (the store as its caller left it).
addAreaOn(d, name) ==
    IF userId = NoUser THEN [success |-> FALSE, db |-> d, rejected |-> FALSE]
    ELSE IF name.word = "" \/ areaListed(name)
         THEN [success |-> FALSE, db |-> d, rejected |-> FALSE]
    ELSE CommitOn(d, << BatchSet("areas", autoId("areas"), [name |-> name]) >>)

addArea(name) ==
    LET res == addAreaOn(db, name)
    IN  Return("addArea", [id |-> autoId("areas"), name |-> name], res,
               IF res.success THEN [nextId EXCEPT !.areas = @ + 1] ELSE nextId)

deleteArea(areaId) ==
    LET res == IF userId = NoUser THEN Failure
               ELSE Commit(<< BatchDelete("areas", areaId) >>)
    IN  Return("deleteArea", [id |-> areaId], res, nextId)

\* addDoc of the customer, then addArea for an area that is not in the list
\* (compared as written); the result of addArea is not looked at.
addCustomer(customerData, openingDue) ==
    LET newCustomerData == Put(customerData, "openingDue", openingDue)
        added == Commit(<< BatchSet("customers", autoId("customers"), newCustomerData) >>)
        newArea == /\ "area" \in DOMAIN customerData
                   /\ customerData.area.word # ""
                   /\ ~\E a \in DOMAIN areas : areas[a].name = customerData.area
        area == IF added.success /\ newArea THEN addAreaOn(added.db, customerData.area)
                ELSE [success |-> FALSE, db |-> added.db, rejected |-> FALSE]
        res == IF userId = NoUser THEN Failure
               ELSE IF ~added.success THEN added
               ELSE [success |-> TRUE, db |-> area.db, rejected |-> area.rejected]
    IN  Return("addCustomer",
               [id |-> autoId("customers"), data |-> customerData,
                openingDue |-> openingDue], res,
               IF res.success
               THEN [nextId EXCEPT !.customers = @ + 1,
                                   !.areas = IF area.success THEN @ + 1 ELSE @]
               ELSE nextId)

\* updateDoc(user document, {subscriptionStatus: 'pending', subscriptionRequest})
submitSubscriptionRequest(data) ==
    LET res == IF userId = NoUser THEN Failure
               ELSE Commit(<< BatchUpdate("users", userId,
                                          [subscriptionStatus |-> Str("pending"),
                                           subscriptionRequest |-> data], {}) >>)
    IN  Return("submitSubscriptionRequest", data, res, nextId)

----------------------------------------------------------------------------
(* Clock: a Date is a count of half months; the JavaScript Date getters *)

Stamp(year, month0, half) == (year * 12 + month0) * 2 + half
getFullYear(date) == (date \div 2) \div 12
getMonth(date) == (date \div 2) % 12

\* The clock when the session starts (second half of December 2024) and
\* where it stops.
InitNow == Stamp(2024, 11, 1)
MaxNow == InitNow + MaxTicks

----------------------------------------------------------------------------
(* Bill generator *)

\* `${customer.id}-${year}-${month}`
BillId(customerId, year, month) == <<customerId, year, month>>

\* bills.some(b => b.id === billId)
billExists_never(billId, bls) == FALSE
billExists(billId, bls) == billId \in DOMAIN bls

\* The body of the while loop for one loopDate (lm: its year * 12 + month),
\* then the rest of the loop after loopDate.setMonth(loopDate.getMonth() + 1).
RECURSIVE monthLoop(_, _, _, _, _)
monthLoop(customerId, customer, lm, bls, currentDate) ==
    LET currentYear == getFullYear(currentDate)
        currentMonth == getMonth(currentDate)
        loopYear == lm \div 12
        loopMonth == lm % 12
    IN  IF loopYear < currentYear \/ (loopYear = currentYear /\ loopMonth <= currentMonth)
        THEN LET year == loopYear
                 month == loopMonth + 1
                 billId == BillId(customerId, year, month)
                 newBill == [customerId |-> customerId,
                             amount |-> customer.monthlyBill,
                             month |-> month, year |-> year, status |-> UNPAID,
                             dueDate |-> Stamp(year, month - 1, 1)]
             IN  (IF billExists(billId, bls) THEN {} ELSE {BatchSet("bills", billId, newBill)})
                    \cup monthLoop(customerId, customer, lm + 1, bls, currentDate)
        ELSE {}

\* new Date(str) of a date-only string is midnight UTC of that day; the
\* getters read it in local time, where it is the evening before when the
\* device is behind UTC.
parseDate(str) == IF tzWest THEN str - 1 ELSE str

\* The writes the generator batches for one customer.
customerBills(customerId, customer, bls, currentDate) ==
    IF customer.connectionStatus = ACTIVE
    THEN LET startDate == parseDate(customer.startDate)
         IN  IF customer.startDate > currentDate THEN {}
             ELSE monthLoop(customerId, customer,
                            getFullYear(startDate) * 12 + getMonth(startDate),
                            bls, currentDate)
    ELSE {}

\* generateBills: the batch built from the customer list and the bill list.
generateBills(custs, bls, currentDate) ==
    UNION {customerBills(c, custs[c], bls, currentDate) : c \in DOMAIN custs}

\* The bill-generation effect, run when customers, userId or
\* initialBillsLoaded changed; the batch it commits.
billGenerationEffect_unguarded(uid, loaded, custs, bls) ==
    IF uid = NoUser \/ custs = Empty THEN {}
    ELSE generateBills(custs, bls, now)

billGenerationEffect(uid, loaded, custs, bls) ==
    IF uid = NoUser \/ ~loaded \/ custs = Empty THEN {}
    ELSE generateBills(custs, bls, now)

\* The store and the call record after the effect committed its batch.  The
\* promise of generateBills() is neither awaited nor given a catch handler.
RunGenerator(writes) ==
    LET res == Commit(SeqOfSet(writes))
    IN  /\ db' = res.db
        /\ last' = IF writes = {} THEN last
                   ELSE Call("generateBills", [writes |-> writes], res)
        /\ uncaught' = IF res.success THEN uncaught ELSE uncaught \cup {"generateBills"}

----------------------------------------------------------------------------
(* Access gate: useSubscriptionStatus *)

\* user === null in the AuthProvider
NoProfile == [id |-> NoUser]

\* Times of the gate are counted in half days; Date.getTime of the clock.
DAY == 2
getTime(date) == date * 15 * DAY

\* Math.ceil(n / d) for d > 0
ceilDiv(n, d) == -((-n) \div d)

\* user?.subscriptionStatus?.trim().toLowerCase() || 'free_trial'
statusOf(u) ==
    IF "subscriptionStatus" \notin DOMAIN u THEN Str("free_trial")
    ELSE LET str == toLowerCase(trim(u.subscriptionStatus))
         IN  IF str.word = "" THEN Str("free_trial") ELSE str

\* The trialDaysLeft memo, computed at clock time date.
computeTrialDaysLeft(u, date) ==
    IF "trialEndDate" \notin DOMAIN u THEN 0
    ELSE LET diffTime == u.trialEndDate - getTime(date)
             days == ceilDiv(diffTime, DAY)
         IN  IF days > 0 THEN days ELSE 0

\* What the hook returns for the user u and the memoised days.
useSubscriptionStatus_lastDay(u, days) ==
    LET status == statusOf(u)
        isSubscribed == status = Str("active")
        isPending == status = Str("pending")
        isTrialActive == status = Str("free_trial") /\ days > 1
        isLocked == ~isSubscribed /\ ~isTrialActive /\ ~isPending
    IN  [status |-> status, isSubscribed |-> isSubscribed,
         isTrialActive |-> isTrialActive, isPending |-> isPending,
         trialDaysLeft |-> days, isLocked |-> isLocked]

useSubscriptionStatus(u, days) ==
    LET status == statusOf(u)
        isSubscribed == status = Str("active")
        isPending == status = Str("pending")
        isTrialActive == status = Str("free_trial") /\ days > 0
        isLocked == ~isSubscribed /\ ~isTrialActive /\ ~isPending
    IN  [status |-> status, isSubscribed |-> isSubscribed,
         isTrialActive |-> isTrialActive, isPending |-> isPending,
         trialDaysLeft |-> days, isLocked |-> isLocked]

\* The end of the trial the AuthProvider gives a user: the end of the 30th
\* day from date.
newTrialEndDate_noSetHours(date) == getTime(date) + 30 * DAY
newTrialEndDate(date) == getTime(date) + 30 * DAY + (DAY - 1)

----------------------------------------------------------------------------
(* Snapshot listeners *)

\* customers listener: setCustomers, then the generation effect of the render.
SnapCustomers ==
    /\ userId # NoUser
    /\ customers # db.customers
    /\ customers' = db.customers
    /\ RunGenerator(billGenerationEffect(userId, initialBillsLoaded, db.customers, bills))
    /\ UNCHANGED <<userId, payments, duePayments, bills, initialBillsLoaded, now,
                   nextId, calls, initialDue,
                   scenario, areas, user, trialDaysLeft, denied, tzWest, dialog>>

SnapPayments ==
    /\ userId # NoUser
    /\ payments # db.payments
    /\ payments' = db.payments
    /\ UNCHANGED <<userId, db, customers, duePayments, bills, initialBillsLoaded,
                   now, nextId, calls, initialDue, last,
                   scenario, areas, user, trialDaysLeft, denied, tzWest, dialog, uncaught>>

SnapDuePayments ==
    /\ userId # NoUser
    /\ duePayments # db.duePayments
    /\ duePayments' = db.duePayments
    /\ UNCHANGED <<userId, db, customers, payments, bills, initialBillsLoaded,
                   now, nextId, calls, initialDue, last,
                   scenario, areas, user, trialDaysLeft, denied, tzWest, dialog, uncaught>>

SnapAreas ==
    /\ userId # NoUser
    /\ areas # db.areas
    /\ areas' = db.areas
    /\ UNCHANGED <<userId, db, customers, payments, duePayments, bills,
                   initialBillsLoaded, now, nextId, calls, initialDue, last,
                   scenario, user, trialDaysLeft, denied, tzWest, dialog, uncaught>>

\* The user document listener of the AuthProvider: a profile without a
\* subscription status is given a 30-day trial in the store (a rejection is
\* caught by the .catch handler); setUser; the screens render with the new
\* user object, which recomputes the trialDaysLeft memo.
onUserSnapshot ==
    LET userData == db.users[TheUser]
        migration == << BatchUpdate("users", TheUser,
                                    [subscriptionStatus |-> Str("free_trial"),
                                     trialEndDate |-> newTrialEndDate(now)], {}) >>
        migrates == \/ "subscriptionStatus" \notin DOMAIN userData
                    \/ userData.subscriptionStatus.word = "" /\ ~userData.subscriptionStatus.padded
    IN  /\ TheUser \in DOMAIN db.users
        /\ user' = Put(userData, "id", TheUser)
        /\ userId' = TheUser
        /\ trialDaysLeft' = computeTrialDaysLeft(user', now)
        /\ db' = IF migrates THEN Commit(migration).db ELSE db
        /\ UNCHANGED <<customers, payments, duePayments, bills, initialBillsLoaded,
                       now, nextId, calls, initialDue, last, scenario, areas,
                       denied, tzWest, dialog, uncaught>>

SnapUser ==
    /\ userId # NoUser
    /\ TheUser \in DOMAIN db.users
    /\ user # Put(db.users[TheUser], "id", TheUser)
    /\ onUserSnapshot

\* bills listener: setBills and, on the first snapshot, setInitialBillsLoaded,
\* which re-runs the generation effect with the bills just received.
SnapBills_inDeps ==
    /\ userId # NoUser
    /\ bills # db.bills \/ ~initialBillsLoaded
    /\ bills' = db.bills
    /\ initialBillsLoaded' = TRUE
    /\ RunGenerator(billGenerationEffect(userId, TRUE, customers, db.bills))
    /\ UNCHANGED <<userId, customers, payments, duePayments, now, nextId, calls, initialDue,
                   scenario, areas, user, trialDaysLeft, denied, tzWest, dialog>>

SnapBills ==
    /\ userId # NoUser
    /\ bills # db.bills \/ ~initialBillsLoaded
    /\ bills' = db.bills
    /\ initialBillsLoaded' = TRUE
    /\ RunGenerator(IF initialBillsLoaded THEN {}
                    ELSE billGenerationEffect(userId, TRUE, customers, db.bills))
    /\ UNCHANGED <<userId, customers, payments, duePayments, now, nextId, calls, initialDue,
                   scenario, areas, user, trialDaysLeft, denied, tzWest, dialog>>

----------------------------------------------------------------------------
(* Initial states *)

OpeningDues == {0, 3}

ActiveUser == [subscriptionStatus |-> Str("active")]

\* A signed-in session whose data listeners have not delivered yet.
InitStore(custs, areaDocs, userData) ==
    /\ userId = TheUser
    /\ db = [customers |-> custs, payments |-> Empty, duePayments |-> Empty,
             bills |-> Empty, areas |-> areaDocs,
             users |-> [u \in {TheUser} |-> userData]]
    /\ customers = Empty
    /\ payments = Empty
    /\ duePayments = Empty
    /\ bills = Empty
    /\ areas = Empty
    /\ initialBillsLoaded = FALSE
    /\ now = InitNow
    /\ nextId = [payments |-> 1, duePayments |-> 1, customers |-> NumCust + 1,
                 areas |-> Cardinality(DOMAIN areaDocs) + 1]
    /\ calls = 0
    /\ initialDue = [c \in DOMAIN custs |-> custs[c].openingDue]
    /\ last = NoCall
    /\ scenario = Empty
    /\ user = Put(userData, "id", TheUser)
    /\ trialDaysLeft = computeTrialDaysLeft(userData, InitNow)
    /\ denied = {}
    /\ uncaught = {}
    /\ dialog = NoDialog

\* The store holds the customers entered earlier and no ledger records; the
\* user is a subscriber, the device is ahead of UTC.
InitWith(custs) == InitStore(custs, Empty, ActiveUser) /\ tzWest = FALSE

CustomerDoc(due, start) ==
    [monthlyBill |-> MaxBill, connectionStatus |-> ACTIVE,
     startDate |-> start, openingDue |-> due]

----------------------------------------------------------------------------
(* The due ledger alone: the three due-ledger operations and the listeners *)

InitDue ==
    \E dues \in [CustIds -> OpeningDues] :
        InitWith([c \in CustIds |-> CustomerDoc(dues[c], Stamp(2024, 11, 0))])

DueAdd ==
    /\ calls < MaxCalls
    /\ UNCHANGED <<scenario, dialog>>
    /\ nextId.duePayments <= MaxDuePayments
    /\ \E c \in DOMAIN customers, amount \in Amounts, date \in Dates :
          addDuePayment([customerId |-> c, amount |-> amount, date |-> date])

\* EditDuePaymentModal: the payment listed, with the amount and date entered.
DueUpdate ==
    /\ calls < MaxCalls
    /\ UNCHANGED <<scenario, dialog>>
    /\ \E id \in DOMAIN duePayments, amount \in Amounts, date \in Dates :
        updateDuePayment(Merge(Put(duePayments[id], "id", id),
                               [amount |-> amount, date |-> date]))

DueDelete ==
    /\ calls < MaxCalls
    /\ UNCHANGED <<scenario, dialog>>
    /\ \E id \in DOMAIN duePayments : deleteDuePayment(id)

NextDue ==
    \/ DueAdd
    \/ DueUpdate
    \/ DueDelete
    \/ SnapCustomers
    \/ SnapDuePayments
    \/ SnapBills

SpecDue == InitDue /\ [][NextDue]_vars

----------------------------------------------------------------------------
(* The whole session: every operation the screens offer, the listeners, the
   clock and sign-out / sign-in *)

Init ==
    InitWith([c \in CustIds |-> CustomerDoc(3, Stamp(2024, 11, 0))])

\* CollectBillModal: the unpaid bills of the customer as listed, a non-empty
\* selection of them, each with an amount between 0 and the bill's amount.
unpaidBills(customerId) ==
    {b \in DOMAIN bills : bills[b].customerId = customerId /\ bills[b].status = UNPAID}

Collect ==
    /\ calls < MaxCalls
    /\ UNCHANGED <<scenario, dialog>>
    /\ nextId.payments <= MaxPayments
    /\ \E c \in DOMAIN customers :
       \E sel \in (SUBSET unpaidBills(c)) \ {{}} :
       \E selectedBills \in [sel -> 0..MaxBill] :
       \E date \in Dates :
          /\ \A b \in sel : selectedBills[b] <= bills[b].amount
          /\ addPayment([customerId |-> c,
                         amount |-> SumOver(sel, selectedBills),
                         date |-> date], selectedBills)

\* CustomerDetailScreen: undo of the payment a listed bill refers to.
UndoPayment ==
    /\ calls < MaxCalls
    /\ UNCHANGED <<scenario, dialog>>
    /\ \E b \in DOMAIN bills :
          /\ "paymentId" \in DOMAIN bills[b]
          /\ deletePayment(bills[b].paymentId)

\* CustomerForm of a listed customer: the fields as loaded, some edited.  A
\* Paused customer set to Active gets today as start date.
EditCustomer ==
    /\ calls < MaxCalls
    /\ UNCHANGED <<scenario, dialog>>
    /\ \E c \in DOMAIN customers :
       \E monthlyBill \in 1..MaxBill, status \in {ACTIVE, INACTIVE, PAUSED},
          openingDue \in {customers[c].openingDue, 0} :
          LET startDate == IF customers[c].connectionStatus = PAUSED /\ status = ACTIVE
                           THEN now ELSE customers[c].startDate
          IN  updateCustomer(Merge(Put(customers[c], "id", c),
                                   [monthlyBill |-> monthlyBill,
                                    connectionStatus |-> status,
                                    startDate |-> startDate,
                                    openingDue |-> openingDue]))

RemoveCustomer ==
    /\ calls < MaxCalls
    /\ UNCHANGED <<scenario, dialog>>
    /\ \E c \in DOMAIN customers : deleteCustomer(c)

Tick ==
    /\ now < MaxNow
    /\ now' = now + 1
    /\ UNCHANGED <<userId, db, customers, payments, duePayments, bills,
                   initialBillsLoaded, nextId, calls, initialDue, last,
                   scenario, areas, user, trialDaysLeft, denied, tzWest, dialog, uncaught>>

\* Sign-out: the subscription effect unsubscribes and empties the lists.
Logout ==
    /\ userId # NoUser
    /\ userId' = NoUser
    /\ customers' = Empty
    /\ payments' = Empty
    /\ duePayments' = Empty
    /\ bills' = Empty
    /\ areas' = Empty
    /\ initialBillsLoaded' = FALSE
    /\ user' = NoProfile
    /\ trialDaysLeft' = computeTrialDaysLeft(NoProfile, now)
    /\ dialog' = NoDialog
    /\ UNCHANGED <<db, now, nextId, calls, initialDue, last,
                   scenario, denied, tzWest, uncaught>>

\* Sign-in: the user document arrives, and with the user id the
\* subscription effect subscribes the five listeners.
Login ==
    /\ userId = NoUser
    /\ onUserSnapshot

Next ==
    \/ DueAdd
    \/ DueUpdate
    \/ DueDelete
    \/ Collect
    \/ UndoPayment
    \/ EditCustomer
    \/ RemoveCustomer
    \/ SnapCustomers
    \/ SnapPayments
    \/ SnapDuePayments
    \/ SnapBills
    \/ Tick
    \/ Logout
    \/ Login

Spec == Init /\ [][Next]_vars

----------------------------------------------------------------------------
(* The due-ledger closed loop: one record is added, edited and deleted, each *)
(* call issued once the listeners have delivered the previous call's writes *)

Synced == customers = db.customers /\ duePayments = db.duePayments

LoopAdd ==
    /\ calls = 0
    /\ Synced
    /\ \E c \in DOMAIN customers, amount \in Amounts, date \in Dates :
          /\ addDuePayment([customerId |-> c, amount |-> amount, date |-> date])
          /\ scenario' = [customerId |-> c, a1 |-> amount]
    /\ UNCHANGED dialog

LoopUpdate ==
    /\ calls = 1
    /\ Synced
    /\ \E id \in DOMAIN duePayments, amount \in Amounts, date \in Dates :
          /\ updateDuePayment(Merge(Put(duePayments[id], "id", id),
                                    [amount |-> amount, date |-> date]))
          /\ scenario' = Put(scenario, "a2", amount)
    /\ UNCHANGED dialog

LoopDelete ==
    /\ calls = 2
    /\ Synced
    /\ \E id \in DOMAIN duePayments : deleteDuePayment(id)
    /\ UNCHANGED <<scenario, dialog>>

NextLoop ==
    \/ LoopAdd
    \/ LoopUpdate
    \/ LoopDelete
    \/ SnapCustomers
    \/ SnapDuePayments
    \/ SnapBills

SpecLoop == InitDue /\ [][NextLoop]_vars

----------------------------------------------------------------------------
(* Undo and re-apply: a payment is recorded, undone, and recorded again with *)
(* the same allocations and date, each from the collect-bill dialog *)

UndoFirst ==
    /\ calls = 0
    /\ nextId.payments <= MaxPayments
    /\ \E c \in DOMAIN customers :
       \E sel \in (SUBSET unpaidBills(c)) \ {{}} :
       \E selectedBills \in [sel -> 0..MaxBill] :
       \E date \in Dates :
          /\ \A b \in sel : selectedBills[b] <= bills[b].amount
          /\ addPayment([customerId |-> c,
                         amount |-> SumOver(sel, selectedBills),
                         date |-> date], selectedBills)
          /\ scenario' = [customerId |-> c, billsToPay |-> selectedBills,
                          date |-> date, p |-> autoId("payments")]
    /\ UNCHANGED dialog

\* The undo of the payment, offered on a listed bill that refers to it; the
\* scenario keeps the stored state of the allocated bills before the undo.
UndoUndo ==
    /\ calls = 1
    /\ \E b \in DOMAIN bills : isPaidBy(bills[b], scenario.p)
    /\ deletePayment(scenario.p)
    /\ scenario' = Put(scenario, "before",
                       [b \in DOMAIN scenario.billsToPay |-> db.bills[b]])
    /\ UNCHANGED dialog

UndoAgain ==
    /\ calls = 2
    /\ nextId.payments <= MaxPayments
    /\ scenario.p \notin DOMAIN db.payments
    /\ scenario.customerId \in DOMAIN customers
    /\ DOMAIN scenario.billsToPay \subseteq unpaidBills(scenario.customerId)
    /\ addPayment([customerId |-> scenario.customerId,
                   amount |-> SumOver(DOMAIN scenario.billsToPay, scenario.billsToPay),
                   date |-> scenario.date], scenario.billsToPay)
    /\ UNCHANGED <<scenario, dialog>>

NextUndo ==
    \/ UndoFirst
    \/ UndoUndo
    \/ UndoAgain
    \/ SnapCustomers
    \/ SnapPayments
    \/ SnapBills
    \/ Tick

SpecUndo == Init /\ [][NextUndo]_vars

----------------------------------------------------------------------------
(* Properties of the due ledger *)

\* The due-payment records of a customer in a store, and their total.
duePaymentsOf(d, c) == {p \in DOMAIN d.duePayments : d.duePayments[p].customerId = c}
dueTotal(d, c) ==
    SumOver(duePaymentsOf(d, c), [p \in duePaymentsOf(d, c) |-> d.duePayments[p].amount])

\* C1: under the due-ledger operations alone, the stored openingDue of every
\* customer equals the openingDue the customer started with minus the sum of
\* the amounts of the customer's stored due-payment records, also when calls
\* are issued before the listeners have refreshed the lists.
C1_DueBalance ==
    \A c \in DOMAIN db.customers :
        db.customers[c].openingDue = initialDue[c] - dueTotal(db, c)

\* C2: a successful due-ledger call changes the stored openingDue by exactly
\* its signed delta, together with the record: add creates the record and
\* lowers openingDue by the amount, update rewrites the record and lowers
\* openingDue by (new amount - stored amount), delete removes the stored
\* record and raises openingDue by its amount.
C2_DueDelta ==
    LET pre == last.pre
    IN  /\ (last.op = "addDuePayment" /\ last.success) =>
              LET c == last.arg.data.customerId
              IN  /\ db.duePayments = Put(pre.duePayments, last.arg.id, last.arg.data)
                  /\ db.customers[c].openingDue
                        = pre.customers[c].openingDue - last.arg.data.amount
        /\ (last.op = "updateDuePayment" /\ last.success) =>
              LET c == last.arg.customerId
                  id == last.arg.id
              IN  /\ db.duePayments = Put(pre.duePayments, id, Remove(last.arg, {"id"}))
                  /\ db.customers[c].openingDue
                        = pre.customers[c].openingDue
                            - (last.arg.amount - pre.duePayments[id].amount)
        /\ (last.op = "deleteDuePayment" /\ last.success) =>
              /\ last.arg.id \in DOMAIN pre.duePayments
              /\ LET c == pre.duePayments[last.arg.id].customerId
                 IN  /\ db.duePayments = Remove(pre.duePayments, {last.arg.id})
                     /\ db.customers[c].openingDue
                           = pre.customers[c].openingDue
                               + pre.duePayments[last.arg.id].amount

\* C3: in the closed loop add(a1), update(a1 -> a2), delete, each call issued
\* after the previous one's writes are visible in memory, openingDue is the
\* starting value minus a1 after the add, minus a2 after the update, and the
\* starting value again after the delete, which leaves no record behind.
C3_ClosedLoop ==
    LET c == scenario.customerId
    IN  /\ (calls = 1 /\ last.op = "addDuePayment") =>
              /\ last.success
              /\ db.customers[c].openingDue = initialDue[c] - scenario.a1
        /\ (calls = 2 /\ last.op = "updateDuePayment") =>
              /\ last.success
              /\ db.customers[c].openingDue = initialDue[c] - scenario.a2
        /\ calls = 3 =>
              /\ last.op = "deleteDuePayment" => last.success
              /\ db.customers[c].openingDue = initialDue[c]
              /\ db.duePayments = Empty

\* The loop has run to its end, through an edit that changed the amount.
C3_Witness ==
    /\ calls = 3
    /\ last.op = "deleteDuePayment"
    /\ last.success
    /\ scenario.a1 # scenario.a2
    /\ db.customers[scenario.customerId].openingDue = initialDue[scenario.customerId]

----------------------------------------------------------------------------
(* Properties of the payment reconciler *)

\* The shortfall of an allocation against the stored bills of a store.
totalShortfall(d, billsToPay) ==
    SumOver(DOMAIN billsToPay,
            [b \in DOMAIN billsToPay |->
                IF d.bills[b].amount - billsToPay[b] > 0
                THEN d.bills[b].amount - billsToPay[b] ELSE 0])

addPaymentDone == last.op = "addPayment" /\ last.success
deletePaymentDone == last.op = "deletePayment" /\ last.success

C6_UndoRevertsBills ==
    deletePaymentDone =>
        /\ last.arg.id \notin DOMAIN db.payments
        /\ \A b \in DOMAIN last.pre.bills :
              isPaidBy(last.pre.bills[b], last.arg.id) =>
                  /\ b \in DOMAIN db.bills
                  /\ db.bills[b].status = UNPAID
                  /\ DOMAIN db.bills[b] \cap {"paidDate", "paymentId"} = {}
        /\ \A b \in DOMAIN db.bills : ~isPaidBy(db.bills[b], last.arg.id)

\* A payment that a stored bill referenced has been undone.
C6_Witness ==
    /\ deletePaymentDone
    /\ last.arg.id \in DOMAIN last.pre.payments
    /\ \E b \in DOMAIN last.pre.bills : isPaidBy(last.pre.bills[b], last.arg.id)

\* C7: deletePayment leaves every customer document, and so every openingDue,
\* as it was, also when the payment had under-paid a bill.
C7_UndoKeepsOpeningDue ==
    last.op = "deletePayment" => db.customers = last.pre.customers

\* The payment p of a bill has been undone where p had paid less than the
\* bill's amount.
C7_Witness ==
    /\ deletePaymentDone
    /\ last.arg.id \in DOMAIN last.pre.payments
    /\ \E b \in DOMAIN last.pre.bills :
          /\ isPaidBy(last.pre.bills[b], last.arg.id)
          /\ last.pre.payments[last.arg.id].amount < last.pre.bills[b].amount
          /\ db.bills[b].status = UNPAID
          /\ db.customers[last.pre.bills[b].customerId].openingDue > 3

\* The state of a bill the undo-exactness property compares.
billState(bill) ==
    [k \in DOMAIN bill \cap {"status", "paidDate", "paymentId"} |-> bill[k]]

reapplied == calls = 3 /\ addPaymentDone

\* C8 as stated: undo followed by the same payment again gives every bill of
\* the allocations the status, paidDate and paymentId it had before the undo.
C8_UndoExact ==
    reapplied =>
        \A b \in DOMAIN scenario.billsToPay :
            billState(db.bills[b]) = billState(scenario.before[b])

\* C8, amended: undo followed by the same payment again gives every bill of
\* the allocations the status (Paid) and paidDate it had before the undo; its
\* paymentId is the id of the new Payment record, which is not the id of the
\* payment undone.
C8_UndoExactButId ==
    reapplied =>
        \A b \in DOMAIN scenario.billsToPay :
            /\ scenario.before[b].status = PAID
            /\ db.bills[b].status = scenario.before[b].status
            /\ db.bills[b].paidDate = scenario.before[b].paidDate
            /\ scenario.before[b].paymentId = scenario.p
            /\ db.bills[b].paymentId = last.arg.id
            /\ db.bills[b].paymentId # scenario.before[b].paymentId

\* The payment has been recorded again after its undo.
C8_Witness ==
    /\ reapplied
    /\ scenario.p \notin DOMAIN db.payments
    /\ \E b \in DOMAIN scenario.billsToPay : db.bills[b].paidDate = scenario.date

----------------------------------------------------------------------------
(* Properties of the bill life cycle *)

withGenerated(bls, writes) ==
    [b \in DOMAIN bls \cup {w.id : w \in writes} |->
        IF \E w \in writes : w.id = b THEN (CHOOSE w \in writes : w.id = b).data
        ELSE bls[b]]

\* C10: a second generator run on the same customers and on the bill set the
\* first run produced emits no bill, and the store never holds two bills of
\* one (customer, year, month): a bill's id is the key made of the three.
C10_GenerationIdempotent ==
    /\ generateBills(customers,
                     withGenerated(bills, generateBills(customers, bills, now)),
                     now) = {}
    /\ \A b \in DOMAIN db.bills :
          b = BillId(db.bills[b].customerId, db.bills[b].year, db.bills[b].month)
    /\ \A b1, b2 \in DOMAIN db.bills :
          (/\ db.bills[b1].customerId = db.bills[b2].customerId
           /\ db.bills[b1].year = db.bills[b2].year
           /\ db.bills[b1].month = db.bills[b2].month) => b1 = b2

\* A generator run has emitted bills, its output has reached the bill list,
\* and a run from there emits nothing.
C10_Witness ==
    /\ last.op = "generateBills"
    /\ last.arg.writes # {}
    /\ bills = db.bills
    /\ customers = db.customers
    /\ generateBills(customers, bills, now) = {}

----------------------------------------------------------------------------
(* The generator alone: customers of every status and start date, an empty *)
(* bill collection, on a device ahead of or behind UTC *)

\* Start dates entered in the customer form: 1 November 2024, 1 December
\* 2024, 16 December 2024 and 16 January 2025.
GenStartDates ==
    {Stamp(2024, 10, 0), Stamp(2024, 11, 0), Stamp(2024, 11, 1), Stamp(2025, 0, 1)}

InitGen ==
    \E status \in [CustIds -> {ACTIVE, INACTIVE, PAUSED}],
       start \in [CustIds -> GenStartDates],
       monthlyBill \in [CustIds -> 1..MaxBill] :
        /\ InitStore([c \in CustIds |->
                        [monthlyBill |-> monthlyBill[c], connectionStatus |-> status[c],
                         startDate |-> start[c], openingDue |-> 0]],
                     Empty, ActiveUser)
        /\ tzWest \in BOOLEAN

NextGen ==
    \/ SnapCustomers
    \/ SnapBills
    \/ Tick

SpecGen == InitGen /\ [][NextGen]_vars

\* The months (year * 12 + month0) a customer is to be billed for at clock
\* time date: from the month of the start date entered through the current
\* month, for an Active customer whose start date is not in the future.
billedMonths(customer, date) ==
    IF customer.connectionStatus = ACTIVE /\ customer.startDate <= date
    THEN (customer.startDate \div 2)..(date \div 2)
    ELSE {}

\* The step runs the generation effect.
generatorRuns ==
    /\ userId' # NoUser
    /\ initialBillsLoaded'
    /\ customers' # Empty
    /\ customers' # customers \/ ~initialBillsLoaded

\* C11: a generator run on an empty bill set leaves exactly one Unpaid bill
\* of amount monthlyBill for every month from the start month through the
\* current month of every Active customer whose start date is not in the
\* future, and no bill for any other customer or month.
C11_GenerationBoundary ==
    [][(generatorRuns /\ db.bills = Empty /\ bills' = Empty /\ bills = Empty)
        => /\ DOMAIN db'.bills =
                UNION {{BillId(c, ym \div 12, (ym % 12) + 1) :
                            ym \in billedMonths(customers'[c], now)}
                        : c \in DOMAIN customers'}
           /\ \A b \in DOMAIN db'.bills :
                /\ db'.bills[b].status = UNPAID
                /\ db'.bills[b].amount = customers'[db'.bills[b].customerId].monthlyBill]_vars

----------------------------------------------------------------------------
----------------------------------------------------------------------------
(* The data API called directly: any id may be passed, listed or not, *)
(* stored or not, signed in or not *)

\* Customer ids a caller may pass: the stored ones and one never stored.
AnyCust == 1..(NumCust + 1)

North == Str("north")

InitApi ==
    /\ InitStore([c \in CustIds |-> CustomerDoc(3, Stamp(2024, 11, 0))],
                 [a \in {1} |-> [name |-> North]], ActiveUser)
    /\ tzWest = FALSE

ApiAddPayment ==
    /\ calls < MaxCalls
    /\ UNCHANGED <<scenario, dialog>>
    /\ nextId.payments <= MaxPayments
    /\ \E c \in AnyCust :
       \E sel \in SUBSET (DOMAIN bills \cup DOMAIN db.bills) :
       \E billsToPay \in [sel -> 0..MaxBill] :
       \E date \in Dates :
          addPayment([customerId |-> c, amount |-> SumOver(sel, billsToPay),
                      date |-> date], billsToPay)

ApiDeletePayment ==
    /\ calls < MaxCalls
    /\ UNCHANGED <<scenario, dialog>>
    /\ \E id \in 1..MaxPayments : deletePayment(id)

ApiAddDuePayment ==
    /\ calls < MaxCalls
    /\ UNCHANGED <<scenario, dialog>>
    /\ nextId.duePayments <= MaxDuePayments
    /\ \E c \in AnyCust, amount \in Amounts, date \in Dates :
          addDuePayment([customerId |-> c, amount |-> amount, date |-> date])

ApiUpdateDuePayment ==
    /\ calls < MaxCalls
    /\ UNCHANGED <<scenario, dialog>>
    /\ \E id \in 1..MaxDuePayments, c \in AnyCust, amount \in Amounts, date \in Dates :
          updateDuePayment([id |-> id, customerId |-> c, amount |-> amount,
                            date |-> date])

ApiDeleteDuePayment ==
    /\ calls < MaxCalls
    /\ UNCHANGED <<scenario, dialog>>
    /\ \E id \in 1..MaxDuePayments : deleteDuePayment(id)

ApiAddCustomer ==
    /\ calls < MaxCalls
    /\ UNCHANGED <<scenario, dialog>>
    /\ nextId.customers <= NumCust + 1
    /\ \E area \in {North, Str("south")} :
          addCustomer([monthlyBill |-> MaxBill, connectionStatus |-> ACTIVE,
                       startDate |-> now, area |-> area], 0)

ApiUpdateCustomer ==
    /\ calls < MaxCalls
    /\ UNCHANGED <<scenario, dialog>>
    /\ \E c \in AnyCust, status \in {ACTIVE, PAUSED} :
          updateCustomer(Put([CustomerDoc(0, now) EXCEPT !.connectionStatus = status],
                             "id", c))

ApiDeleteCustomer ==
    /\ calls < MaxCalls
    /\ UNCHANGED <<scenario, dialog>>
    /\ \E c \in AnyCust : deleteCustomer(c)

ApiAddArea ==
    /\ calls < MaxCalls
    /\ UNCHANGED <<scenario, dialog>>
    /\ addArea(Str("south"))

ApiDeleteArea ==
    /\ calls < MaxCalls
    /\ UNCHANGED <<scenario, dialog>>
    /\ \E a \in 1..2 : deleteArea(a)

ApiSubmitSubscriptionRequest ==
    /\ calls < MaxCalls
    /\ UNCHANGED <<scenario, dialog>>
    /\ submitSubscriptionRequest([senderPhone |-> 1, transactionId |-> 1])

NextApi ==
    \/ ApiAddPayment
    \/ ApiDeletePayment
    \/ ApiAddDuePayment
    \/ ApiUpdateDuePayment
    \/ ApiDeleteDuePayment
    \/ ApiAddCustomer
    \/ ApiUpdateCustomer
    \/ ApiDeleteCustomer
    \/ ApiAddArea
    \/ ApiDeleteArea
    \/ ApiSubmitSubscriptionRequest
    \/ SnapCustomers
    \/ SnapPayments
    \/ SnapDuePayments
    \/ SnapBills
    \/ SnapAreas
    \/ SnapUser
    \/ Logout
    \/ Login

SpecApi == InitApi /\ [][NextApi]_vars

\* The step is a call of the data-API operation op.
calling(op) == calls' = calls + 1 /\ last'.op = op

\* C13: addPayment for a customer without a stored record, addDuePayment
\* for a customer that is not in the customer list, and updateDuePayment /
\* deleteDuePayment for a due payment or customer that is not in the lists
\* return success = false and leave the store as it was.
C13_MissingTargetFails ==
    [][((\/ /\ calling("addPayment")
            /\ last'.arg.data.customerId \notin DOMAIN db.customers
         \/ /\ calling("addDuePayment")
            /\ last'.arg.data.customerId \notin DOMAIN customers
         \/ /\ calling("updateDuePayment")
            /\ \/ last'.arg.id \notin DOMAIN duePayments
               \/ last'.arg.customerId \notin DOMAIN customers
         \/ /\ calling("deleteDuePayment")
            /\ \/ last'.arg.id \notin DOMAIN duePayments
               \/ duePayments[last'.arg.id].customerId \notin DOMAIN customers)
        => ~last'.success /\ db' = db)]_vars

\* An addPayment for a customer without a stored record, allocating bills
\* that are stored, has failed.
C13_Witness ==
    /\ userId # NoUser
    /\ last.op = "addPayment"
    /\ last.arg.data.customerId \notin DOMAIN last.pre.customers
    /\ DOMAIN last.arg.billsToPay # {}
    /\ DOMAIN last.arg.billsToPay \subseteq DOMAIN last.pre.bills \cap DOMAIN bills
    /\ ~last.success

----------------------------------------------------------------------------
\* C16: while no user is signed in the five in-memory lists are empty, every
\* data-API call returns success = false, and nothing (no call, no generator
\* run) writes to the store.
C16_SignedOut ==
    /\ [](userId = NoUser =>
            /\ customers = Empty /\ payments = Empty /\ areas = Empty
            /\ duePayments = Empty /\ bills = Empty)
    /\ [][(userId = NoUser /\ calls' = calls + 1) => ~last'.success]_vars
    /\ [][(userId = NoUser /\ userId' = NoUser) => db' = db]_vars

\* Signed out, an update of a stored customer has been refused.
C16_Witness ==
    /\ userId = NoUser
    /\ last.op = "updateCustomer"
    /\ last.arg.id \in DOMAIN last.pre.customers
    /\ ~last.success

----------------------------------------------------------------------------
(* Rejected writes: the backend refuses the writes to some collections *)

Collections == {"customers", "payments", "duePayments", "bills", "areas", "users"}

\* The backend starts or stops rejecting writes: to every collection, or to
\* the areas only.
BackendChange ==
    /\ \E cs \in {{}, Collections, {"areas"}} :
          /\ cs # denied
          /\ denied' = cs
    /\ UNCHANGED <<userId, db, customers, payments, duePayments, bills,
                   initialBillsLoaded, now, nextId, calls, initialDue, last,
                   scenario, areas, user, trialDaysLeft, tzWest, dialog, uncaught>>

NextFail ==
    \/ ApiAddPayment
    \/ ApiDeletePayment
    \/ ApiAddDuePayment
    \/ ApiUpdateDuePayment
    \/ ApiDeleteDuePayment
    \/ ApiAddCustomer
    \/ ApiUpdateCustomer
    \/ ApiDeleteCustomer
    \/ ApiAddArea
    \/ ApiDeleteArea
    \/ ApiSubmitSubscriptionRequest
    \/ SnapCustomers
    \/ SnapPayments
    \/ SnapDuePayments
    \/ SnapBills
    \/ SnapAreas
    \/ SnapUser
    \/ BackendChange

SpecFail == InitApi /\ [][NextFail]_vars

MutatingOps ==
    {"addCustomer", "updateCustomer", "deleteCustomer", "addArea", "deleteArea",
     "addPayment", "deletePayment", "addDuePayment", "updateDuePayment",
     "deleteDuePayment", "submitSubscriptionRequest"}

\* C14: a data-API call one of whose writes was rejected has returned
\* success = false and left the store as it was, and no rejection of a
\* data-API call ever reaches its caller.
C14_WriteFailureReported ==
    /\ uncaught \cap MutatingOps = {}
    /\ (last.op \in MutatingOps /\ last.rejected) => (~last.success /\ db = last.pre)

\* C15: a rejected generator batch is caught inside the generator, writes no
\* bill, and the bills are emitted by the next run.
C15_GeneratorFailureCaught ==
    /\ "generateBills" \notin uncaught
    /\ (last.op = "generateBills" /\ ~last.success) => db = last.pre

----------------------------------------------------------------------------
(* Areas: the area screen, the customer form and the areas listener *)

\* Names typed into the area field: "north", "North" and nothing.
AreaNames == {North, [North EXCEPT !.upper = TRUE], Str("")}

InitArea ==
    /\ InitStore([c \in CustIds |-> CustomerDoc(0, Stamp(2024, 11, 0))], Empty, ActiveUser)
    /\ tzWest = FALSE

AreaAdd ==
    /\ calls < MaxCalls
    /\ UNCHANGED <<scenario, dialog>>
    /\ \E name \in AreaNames : addArea(name)

AreaDelete ==
    /\ calls < MaxCalls
    /\ UNCHANGED <<scenario, dialog>>
    /\ \E a \in DOMAIN areas : deleteArea(a)

\* AddCustomerScreen: a new customer in the area typed into the form.
CustomerAdd ==
    /\ calls < MaxCalls
    /\ UNCHANGED <<scenario, dialog>>
    /\ \E area \in AreaNames :
          addCustomer([monthlyBill |-> MaxBill, connectionStatus |-> ACTIVE,
                       startDate |-> now, area |-> area], 0)

NextArea ==
    \/ AreaAdd
    \/ AreaDelete
    \/ CustomerAdd
    \/ SnapAreas
    \/ SnapCustomers
    \/ SnapBills

SpecArea == InitArea /\ [][NextArea]_vars

\* The names of d's areas that equal name ignoring case.
sameName(d, name) ==
    {a \in DOMAIN d.areas : toLowerCase(d.areas[a].name) = toLowerCase(name)}

\* C17: no two stored areas have names that are equal ignoring case, and an
\* addArea with an empty name or a name already stored (ignoring case) has
\* returned success = false and written nothing.
C17_AreaNamesUnique ==
    /\ \A a \in DOMAIN db.areas : sameName(db, db.areas[a].name) = {a}
    /\ (/\ last.op = "addArea"
        /\ last.arg.name.word = "" \/ sameName(last.pre, last.arg.name) # {})
       => (~last.success /\ db = last.pre)

----------------------------------------------------------------------------
(* The access gate: the user document, the clock and the gated screens *)

\* Status strings a user document may hold: the three of the app, one with
\* capitals and blanks, an unknown one and the empty one.
StatusStrings ==
    {Str("active"), [Str("active") EXCEPT !.upper = TRUE, !.padded = TRUE],
     Str("pending"), Str("free_trial"), Str("expired"), Str("")}

\* Ends of trial: half a day before the session starts, half a day and a day
\* and a half after.
TrialEnds == {getTime(InitNow) - 1, getTime(InitNow) + 1, getTime(InitNow) + 3}

\* with(doc, field, values): doc, and doc with the field set to each value.
withField(docs, field, values) ==
    docs \cup {Put(doc, field, v) : doc \in docs, v \in values}

UserDocs ==
    withField(withField({Empty}, "subscriptionStatus", StatusStrings),
              "trialEndDate", TrialEnds)

InitGate ==
    \E userData \in UserDocs :
        /\ InitStore([c \in CustIds |-> CustomerDoc(0, Stamp(2024, 11, 0))], Empty, userData)
        /\ tzWest = FALSE

\* SubscriptionScreen: the form is rendered unless the status read from the
\* user object is pending or active; the payment details are sent.
SubmitRequest ==
    /\ calls < MaxCalls
    /\ userId # NoUser
    /\ statusOf(user).word \notin {"pending", "active"}
    /\ UNCHANGED <<scenario, dialog>>
    /\ submitSubscriptionRequest([senderPhone |-> 1, transactionId |-> 1])

\* Navigation to a screen: a new instance of the hook computes its memo.
Mount ==
    /\ userId # NoUser
    /\ trialDaysLeft # computeTrialDaysLeft(user, now)
    /\ trialDaysLeft' = computeTrialDaysLeft(user, now)
    /\ UNCHANGED <<userId, db, customers, payments, duePayments, bills,
                   initialBillsLoaded, now, nextId, calls, initialDue, last,
                   scenario, areas, user, denied, tzWest, dialog, uncaught>>

NextGate ==
    \/ SubmitRequest
    \/ Mount
    \/ SnapUser
    \/ Tick
    \/ Logout
    \/ Login

SpecGate == InitGate /\ [][NextGate]_vars

\* What the mounted screen reads from the gate.
gate == useSubscriptionStatus(user, trialDaysLeft)

\* AddCustomerScreen, CustomerListScreen, PaymentHistoryScreen and
\* RemindersScreen render their content unless isLocked.
featureAccessible(g) == ~g.isLocked

\* TrialStatusBanner
banner(g) ==
    IF g.isPending THEN "verificationPending"
    ELSE IF g.isTrialActive THEN "trialEndsIn"
    ELSE IF g.isLocked THEN "trialExpired"
    ELSE "none"

\* The status word of the user, its case and blanks aside; free_trial when
\* the field is absent or empty.
statusWord ==
    IF "subscriptionStatus" \in DOMAIN user /\ user.subscriptionStatus.word # ""
    THEN user.subscriptionStatus.word
    ELSE "free_trial"

\* C18: status active is unlocked whatever trialEndDate is; free_trial (or
\* no status) with trialDaysLeft > 0 is unlocked as trial-active; free_trial
\* with trialDaysLeft = 0 (as when trialEndDate is absent) and every status
\* other than active, pending and free_trial are locked.
C18_GateMapping ==
    /\ statusWord = "active" => ~gate.isLocked /\ gate.isSubscribed
    /\ (statusWord = "free_trial" /\ gate.trialDaysLeft > 0)
          => ~gate.isLocked /\ gate.isTrialActive
    /\ (statusWord = "free_trial" /\ gate.trialDaysLeft = 0) => gate.isLocked
    /\ (statusWord = "free_trial" /\ "trialEndDate" \notin DOMAIN user) => gate.isLocked
    /\ statusWord \notin {"active", "pending", "free_trial"} => gate.isLocked

\* A user whose document had no status has signed in, was given the 30-day
\* trial, and reads the gate as trial-active.
C18_Witness ==
    /\ userId # NoUser
    /\ statusWord = "free_trial"
    /\ "trialEndDate" \in DOMAIN user
    /\ user.trialEndDate = newTrialEndDate(now)
    /\ gate.isTrialActive
    /\ ~gate.isLocked

\* C19: while the status is pending the gated screens are not accessible and
\* the banner shows the verification-in-progress state.
C19_PendingLocked ==
    statusWord = "pending"
       => ~featureAccessible(gate) /\ banner(gate) = "verificationPending"

\* C20: the gate always reads the trialDaysLeft of the current clock time:
\* once the clock has passed trialEndDate a free_trial user reads 0 days
\* and locked.
C20_RecomputedOnRead ==
    /\ gate.trialDaysLeft = computeTrialDaysLeft(user, now)
    /\ (/\ statusWord = "free_trial"
        /\ "trialEndDate" \in DOMAIN user
        /\ getTime(now) > user.trialEndDate)
       => (gate.trialDaysLeft = 0 /\ gate.isLocked)

----------------------------------------------------------------------------
\* The subscription status of the user document in the store.
storedStatus(d) == statusOf(d.users[TheUser]).word

\* C21: once the stored subscriptionStatus is active no step of the client
\* (a subscription request, the migration of a user snapshot, the clock)
\* moves it to another status, and a signed-in user whose profile shows
\* active reads the gate as unlocked.
C21_ActiveTerminal ==
    /\ [][storedStatus(db) = "active" => storedStatus(db') = "active"]_vars
    /\ [](userId # NoUser /\ statusWord = "active" => ~gate.isLocked)

----------------------------------------------------------------------------
(* Properties of customer removal *)

\* The records of d that name a customer without a customer document.
orphans(d) ==
    UNION {{<<k, r>> : r \in {q \in DOMAIN d[k] :
                                d[k][q].customerId \notin DOMAIN d.customers}}
            : k \in {"payments", "duePayments", "bills"}}

\* C22: after a successful deleteCustomer(c) the store holds no customer c,
\* and no payment, due payment or bill of a customer that has been deleted,
\* at that time or later (a customer document leaves the store only by
\* deleteCustomer, and every record is created for a stored customer).
C22_DeleteCascades ==
    /\ (last.op = "deleteCustomer" /\ last.success) => last.arg.id \notin DOMAIN db.customers
    /\ orphans(db) = {}

----------------------------------------------------------------------------
(* The collect-bill dialog: CollectBillModal of the customer screen *)

\* b.year - a.year || b.month - a.month, and the comparator of the dialog
\* as written: a.year - b.year || a.month - a.month
compareNewestFirst(a, b) ==
    IF b.year - a.year # 0 THEN b.year - a.year ELSE b.month - a.month
compareUnpaid(a, b) ==
    IF a.year - b.year # 0 THEN a.year - b.year ELSE a.month - a.month

\* Array.prototype.sort with the comparator given as cmp[<<x, y>>]: a stable
\* sort, each element placed behind the ones that do not compare greater.
insertSorted(sorted, x, cmp) ==
    LET greater == {i \in 1..Len(sorted) : cmp[<<sorted[i], x>>] > 0}
        at == IF greater = {} THEN Len(sorted) + 1
              ELSE CHOOSE i \in greater : \A j \in greater : i <= j
    IN  SubSeq(sorted, 1, at - 1) \o <<x>> \o SubSeq(sorted, at, Len(sorted))

RECURSIVE sortFrom(_, _, _)
sortFrom(sorted, rest, cmp) ==
    IF rest = <<>> THEN sorted
    ELSE sortFrom(insertSorted(sorted, Head(rest), cmp), Tail(rest), cmp)

sort(list, cmp) == sortFrom(<<>>, list, cmp)

\* bills.filter(b => b.customerId === customerId).sort(newest first): the
\* ids of the customer's bills in memory, in that order.
getBillsByCustomerId(customerId) ==
    LET ids == {b \in DOMAIN bills : bills[b].customerId = customerId}
    IN  sort(SeqOfSet(ids),
             [p \in ids \X ids |-> compareNewestFirst(bills[p[1]], bills[p[2]])])

\* The unpaidBills memo of the dialog: the list the dialog renders.
unpaidBillList(customerId) ==
    LET byCustomer == getBillsByCustomerId(customerId)
        ids == {byCustomer[i] : i \in 1..Len(byCustomer)}
    IN  sort(SelectSeq(byCustomer, LAMBDA b : bills[b].status = UNPAID),
             [p \in ids \X ids |-> compareUnpaid(bills[p[1]], bills[p[2]])])

\* What is typed into an amount field: a number, nothing, or no number.
InputValues ==
    [kind : {"number"}, n : (0 - 1)..(MaxBill + 1)]
        \cup {[kind |-> "empty", n |-> 0], [kind |-> "text", n |-> 0]}

handleToggleBillSelection(prev, b) ==
    IF b \in DOMAIN prev THEN Remove(prev, {b}) ELSE Put(prev, b, bills[b].amount)

\* parseFloat(value) is value.n for a number and NaN otherwise.
handleAmountChange_unbounded(prev, billId, value, maxAmount) ==
    IF value.kind = "empty" THEN Put(prev, billId, 0)
    ELSE IF value.kind = "number" /\ value.n >= 0
         THEN Put(prev, billId, value.n)
    ELSE prev

handleAmountChange(prev, billId, value, maxAmount) ==
    IF value.kind = "empty" THEN Put(prev, billId, 0)
    ELSE IF value.kind = "number" /\ value.n >= 0 /\ value.n <= maxAmount
         THEN Put(prev, billId, value.n)
    ELSE prev

\* A step of the dialog that calls no data-API operation.
DialogStep(selection, open) ==
    /\ dialog' = [dialog EXCEPT !.isOpen = open, !.selectedBills = selection]
    /\ UNCHANGED <<userId, db, customers, payments, duePayments, bills,
                   initialBillsLoaded, now, nextId, calls, initialDue, last, scenario,
                   areas, user, trialDaysLeft, denied, tzWest, uncaught>>

\* CustomerDetailScreen: the dialog is opened for the customer of the screen;
\* the effect on isOpen empties the selection.
DialogOpen ==
    /\ userId # NoUser
    /\ ~dialog.isOpen
    /\ \E c \in DOMAIN customers :
          dialog' = [isOpen |-> TRUE, customerId |-> c, selectedBills |-> Empty]
    /\ UNCHANGED <<userId, db, customers, payments, duePayments, bills,
                   initialBillsLoaded, now, nextId, calls, initialDue, last, scenario,
                   areas, user, trialDaysLeft, denied, tzWest, uncaught>>

DialogClose ==
    /\ dialog.isOpen
    /\ DialogStep(dialog.selectedBills, FALSE)

\* The check box of a listed bill.
DialogToggle ==
    /\ dialog.isOpen
    /\ \E i \in 1..Len(unpaidBillList(dialog.customerId)) :
          LET b == unpaidBillList(dialog.customerId)[i]
          IN  DialogStep(handleToggleBillSelection(dialog.selectedBills, b), TRUE)

\* The amount field of a listed bill (disabled unless the bill is selected).
DialogAmount ==
    /\ dialog.isOpen
    /\ \E i \in 1..Len(unpaidBillList(dialog.customerId)), value \in InputValues :
          LET b == unpaidBillList(dialog.customerId)[i]
          IN  /\ b \in DOMAIN dialog.selectedBills
              /\ DialogStep(handleAmountChange(dialog.selectedBills, b, value,
                                               bills[b].amount), TRUE)

\* handleSubmit: addPayment with the selection; the dialog closes on success.
DialogSubmit ==
    /\ dialog.isOpen
    /\ calls < MaxCalls
    /\ nextId.payments <= MaxPayments
    /\ DOMAIN dialog.selectedBills # {}
    /\ \E date \in Dates :
          addPayment([customerId |-> dialog.customerId,
                      amount |-> SumOver(DOMAIN dialog.selectedBills, dialog.selectedBills),
                      date |-> date], dialog.selectedBills)
    /\ dialog' = [dialog EXCEPT !.isOpen = ~last'.success]
    /\ UNCHANGED scenario

\* Customers that started in November or December 2024.
InitDialog ==
    \E start \in [CustIds -> {Stamp(2024, 10, 0), Stamp(2024, 11, 0)}] :
        InitWith([c \in CustIds |-> CustomerDoc(0, start[c])])

NextDialog ==
    \/ DialogOpen
    \/ DialogClose
    \/ DialogToggle
    \/ DialogAmount
    \/ DialogSubmit
    \/ SnapCustomers
    \/ SnapBills

SpecDialog == InitDialog /\ [][NextDialog]_vars

\* The bounds of the dialog hold for the entry of bill b.
withinBounds(b) ==
    /\ b \in DOMAIN bills
    /\ bills[b].customerId = dialog.customerId
    /\ 0 <= dialog.selectedBills[b]
    /\ dialog.selectedBills[b] <= bills[b].amount

\* The value typed is no amount between 0 and maxAmount.
outOfBounds(value, maxAmount) ==
    /\ value.kind # "empty"
    /\ \/ value.kind = "text"
       \/ value.n < 0
       \/ value.n > maxAmount

\* Whatever is typed next into the amount field of a selected, listed bill,
\* a value outside the bounds leaves the selection as it is.
editsRejected ==
    \A b \in DOMAIN dialog.selectedBills, value \in InputValues :
        (b \in DOMAIN bills /\ outOfBounds(value, bills[b].amount))
           => handleAmountChange(dialog.selectedBills, b, value, bills[b].amount)
                 = dialog.selectedBills

\* C23 as stated: while the dialog is open every entry of the selection maps
\* a bill that is at present an Unpaid bill of the customer to an amount
\* between 0 and the bill's amount, every allocation passed to addPayment is
\* such an entry, and an edit outside the bounds leaves the selection as it
\* was.
C23_SelectionBounds ==
    /\ dialog.isOpen =>
          \A b \in DOMAIN dialog.selectedBills :
              withinBounds(b) /\ bills[b].status = UNPAID
    /\ dialog.isOpen => editsRejected

\* C23, amended: every entry of the selection maps a bill of the customer to
\* an amount between 0 and the bill's amount; a toggle selects only a bill
\* listed as Unpaid at that time, and an entry stays in the selection when a
\* later bills snapshot shows its bill Paid; an edit outside the bounds
\* leaves the selection as it was.
C23_SelectionBoundsWhenSelected ==
    /\ [](dialog.isOpen => \A b \in DOMAIN dialog.selectedBills : withinBounds(b))
    /\ [](dialog.isOpen => editsRejected)
    /\ [][\A b \in DOMAIN dialog'.selectedBills \ DOMAIN dialog.selectedBills :
              bills[b].status = UNPAID /\ bills[b].customerId = dialog'.customerId]_vars
    /\ [][(dialog.isOpen /\ dialog'.isOpen /\ bills' # bills)
              => dialog'.selectedBills = dialog.selectedBills]_vars

\* The amount of a selected bill has been lowered in the dialog, and a bills
\* snapshot delivered since shows that bill Paid.
C23_Witness ==
    /\ dialog.isOpen
    /\ \E b \in DOMAIN dialog.selectedBills :
          /\ dialog.selectedBills[b] < bills[b].amount
          /\ bills[b].status = PAID

\* C24: the unpaid bills listed in the dialog are ordered oldest first.
C24_OldestFirst ==
    \A c \in DOMAIN customers :
        LET list == unpaidBillList(c)
        IN  \A i, j \in 1..Len(list) :
                i < j => bills[list[i]].year * 12 + bills[list[i]].month
                            < bills[list[j]].year * 12 + bills[list[j]].month

----------------------------------------------------------------------------
(* Registration and sign-in: an account is created or an earlier profile is
   found, the user document listener delivers, the clock runs *)

\* register: setDoc of the profile with a 30-day trial.
register(userData) ==
    LET fullUserData == Merge(userData, [subscriptionStatus |-> Str("free_trial"),
                                         trialEndDate |-> newTrialEndDate(now)])
        res == Commit(<< BatchSet("users", TheUser, fullUserData) >>)
    IN  /\ db' = res.db
        /\ last' = Call("register", [now |-> now, data |-> userData], res)
        /\ UNCHANGED <<userId, customers, payments, duePayments, bills,
                       initialBillsLoaded, now, nextId, calls, initialDue, scenario,
                       areas, user, trialDaysLeft, denied, tzWest, uncaught, dialog>>

\* RegisterScreen: a new account (createUserWithEmailAndPassword refuses an
\* account that exists).
Register ==
    /\ userId = NoUser
    /\ TheUser \notin DOMAIN db.users
    /\ register([fullName |-> "name"])

\* Nobody is signed in; the store holds no profile or a profile of an
\* earlier version of the app.
InitReg ==
    \E users \in {Empty} \cup {[u \in {TheUser} |-> userData] : userData \in UserDocs} :
        /\ userId = NoUser
        /\ db = [customers |-> Empty, payments |-> Empty, duePayments |-> Empty,
                 bills |-> Empty, areas |-> Empty, users |-> users]
        /\ customers = Empty
        /\ payments = Empty
        /\ duePayments = Empty
        /\ bills = Empty
        /\ areas = Empty
        /\ initialBillsLoaded = FALSE
        /\ now = InitNow
        /\ nextId = [payments |-> 1, duePayments |-> 1, customers |-> 1, areas |-> 1]
        /\ calls = 0
        /\ initialDue = Empty
        /\ last = NoCall
        /\ scenario = Empty
        /\ user = NoProfile
        /\ trialDaysLeft = computeTrialDaysLeft(NoProfile, InitNow)
        /\ denied = {}
        /\ uncaught = {}
        /\ dialog = NoDialog
        /\ tzWest = FALSE

NextReg ==
    \/ Register
    \/ Login
    \/ SnapUser
    \/ Mount
    \/ Tick
    \/ Logout

SpecReg == InitReg /\ [][NextReg]_vars

\* The profile has no subscription status (none, or the empty string).
noStatus(doc) ==
    \/ "subscriptionStatus" \notin DOMAIN doc
    \/ doc.subscriptionStatus = Str("")

\* The last instant of the 30th day after the day of the clock time date.
endOfDay30(date) == ((getTime(date) \div DAY) + 30) * DAY + (DAY - 1)

\* The step delivers a snapshot of the user document.
userSnapshot == user' # user /\ user' # NoProfile

\* The store has a profile before and after the step.
profileKept == TheUser \in DOMAIN db.users /\ TheUser \in DOMAIN db'.users

\* C25: register stores a profile in status free_trial whose trialEndDate is
\* the end of the 30th day after registration, and the user who signs in at
\* that time reads the gate as trial-active with 1 to 31 days left; a user
\* snapshot of a profile without status writes the same trial to it, and no
\* step rewrites the status or trialEndDate of a profile that has a status.
C25_TrialOnRegistration ==
    /\ [][(last' # last /\ last'.op = "register" /\ last'.success)
            => /\ db'.users[TheUser].subscriptionStatus = Str("free_trial")
               /\ db'.users[TheUser].trialEndDate = endOfDay30(now)]_vars
    /\ [](/\ last.op = "register" /\ last.success
          /\ userId # NoUser
          /\ user = Put(db.users[TheUser], "id", TheUser)
          /\ now = last.arg.now
          => /\ gate.isTrialActive /\ ~gate.isLocked
             /\ gate.trialDaysLeft >= 1 /\ gate.trialDaysLeft <= 31)
    /\ [][(userSnapshot /\ noStatus(db.users[TheUser]))
            => db'.users[TheUser]
                 = Merge(db.users[TheUser], [subscriptionStatus |-> Str("free_trial"),
                                             trialEndDate |-> endOfDay30(now)])]_vars
    /\ [][(profileKept /\ ~noStatus(db.users[TheUser])) => db'.users = db.users]_vars

\* A newly registered user has signed in at the time of registration.
C25_Witness ==
    /\ last.op = "register"
    /\ last.success
    /\ userId # NoUser
    /\ user = Put(db.users[TheUser], "id", TheUser)
    /\ now = last.arg.now
    /\ gate.trialDaysLeft = 31

----------------------------------------------------------------------------
(* Bills and a changing monthly bill: the customer form changes the monthly
   bill, payments are collected, the listeners deliver, the clock runs *)

\* CustomerForm of a listed customer: the monthly bill is changed.
EditMonthlyBill ==
    /\ calls < MaxCalls
    /\ UNCHANGED <<scenario, dialog>>
    /\ \E c \in DOMAIN customers, monthlyBill \in 1..(MaxBill + 1) :
          /\ monthlyBill # customers[c].monthlyBill
          /\ updateCustomer(Merge(Put(customers[c], "id", c),
                                  [monthlyBill |-> monthlyBill]))

NextRegen ==
    \/ EditMonthlyBill
    \/ Collect
    \/ SnapCustomers
    \/ SnapPayments
    \/ SnapBills
    \/ Tick

SpecRegen == Init /\ [][NextRegen]_vars

\* The step commits a batch of the generator.
generatorCommits == last' # last /\ last'.op = "generateBills" /\ last'.success

\* C26: the generator runs only after the first bills snapshot, its batch
\* holds no write to a bill that is in the store, and every stored bill is
\* the same document after a generator run as before it.
C26_GeneratorKeepsBills ==
    /\ [][generatorCommits =>
            /\ initialBillsLoaded'
            /\ \A w \in last'.arg.writes : w.id \notin DOMAIN db.bills
            /\ \A b \in DOMAIN db.bills : b \in DOMAIN db'.bills /\ db'.bills[b] = db.bills[b]]_vars

----------------------------------------------------------------------------
\* C27: in every store state a bill is Paid exactly if it carries a
\* paymentId and a paidDate, the paymentId of a Paid bill is the id of a
\* stored payment of the same customer, and an Unpaid bill carries neither
\* field.
C27_PaidMetadata ==
    \A b \in DOMAIN db.bills :
        LET bill == db.bills[b]
        IN  /\ bill.status = PAID <=> {"paymentId", "paidDate"} \subseteq DOMAIN bill
            /\ bill.status = PAID =>
                  /\ bill.paymentId \in DOMAIN db.payments
                  /\ db.payments[bill.paymentId].customerId = bill.customerId
            /\ bill.status = UNPAID => DOMAIN bill \cap {"paymentId", "paidDate"} = {}

----------------------------------------------------------------------------
\* The allocated bills that were stored Unpaid before the last call.
allocatedUnpaid ==
    {b \in DOMAIN last.arg.billsToPay :
        b \in DOMAIN last.pre.bills /\ last.pre.bills[b].status = UNPAID}

\* C28: a successful addPayment leaves every bill that was Paid in the store
\* as it was (its paymentId and paidDate stay those of the payment that
\* settled it), and adds to openingDue the shortfall of the allocated bills
\* that were Unpaid only, also when the bill list lags the store.
C28_SettledOnce ==
    addPaymentDone =>
        /\ \A b \in DOMAIN last.pre.bills :
              last.pre.bills[b].status = PAID => db.bills[b] = last.pre.bills[b]
        /\ LET c == last.arg.data.customerId
           IN  db.customers[c].openingDue
                  = last.pre.customers[c].openingDue
                      + SumOver(allocatedUnpaid,
                                [b \in allocatedUnpaid |->
                                    shortfall(last.pre.bills[b], last.arg.billsToPay[b])])

----------------------------------------------------------------------------
\* C29: a customer edit whose form holds the openingDue it was loaded with
\* (the edit changes other fields only) leaves the stored openingDue as it
\* is, whatever the ledger operations have written to it.
C29_EditKeepsOpeningDue ==
    [][(/\ calling("updateCustomer")
        /\ last'.success
        /\ last'.arg.id \in DOMAIN customers
        /\ last'.arg.openingDue = customers[last'.arg.id].openingDue)
       => db'.customers[last'.arg.id].openingDue
             = db.customers[last'.arg.id].openingDue]_vars

----------------------------------------------------------------------------
\* The allocations of the call in this step whose bill is / is not in the
\* in-memory bill list.
foundBills == DOMAIN last'.arg.billsToPay \cap DOMAIN bills
skippedBills == DOMAIN last'.arg.billsToPay \ DOMAIN bills

====
